---- MODULE Spec2Model ----
(***************************************************************************)
(* Model of the generation pipeline of src/app.py: generate_image() and    *)
(* the "Generate Image" button handler that calls it, together with the    *)
(* session state it mutates (prompt_history, generated_images,             *)
(* current_image).                                                         *)
(*                                                                         *)
(* Strings are modelled as sequences of one-character strings so that      *)
(* str.strip() can be computed.  One invocation is split at its two        *)
(* blocking outbound calls (the Groq completion and the Stability POST);   *)
(* everything between two calls is local, synchronous code and is one      *)
(* step.                                                                   *)
(***************************************************************************)
EXTENDS Integers, Sequences, FiniteSets, TLC

VARIABLES
    prompt_history,     \* st.session_state.prompt_history
    generated_images,   \* st.session_state.generated_images
    current_image,      \* st.session_state.current_image, <<>> is None
    pc,                 \* position of the session's script run
    text_prompt,        \* argument of the running generate_image
    groq_api_key,       \* argument of the running generate_image
    stability_api_key,  \* argument of the running generate_image
    enhance_prompt,     \* argument of the running generate_image
    enhanced_prompt,    \* local of the running generate_image
    ret,                \* what generate_image returned: "-", "None", "image"
    trace,              \* history: events of the running invocation
    ph0, gi0, ci0,      \* history: session state when the invocation began
    appendedPrompts,    \* history: every item appended to prompt_history
    appendedImages      \* history: every item appended to generated_images

vars == <<prompt_history, generated_images, current_image, pc, text_prompt,
          groq_api_key, stability_api_key, enhance_prompt, enhanced_prompt,
          ret, trace, ph0, gi0, ci0, appendedPrompts, appendedImages>>

----------------------------------------------------------------------------
(* Bounds of the model. *)

\* Appends to prompt_history in a session over the full input domain.
MaxAppends == 3
\* Appends to prompt_history in a long session over a narrow input domain.
MaxLongAppends == 11

(* Program constants. *)

HistoryCap == 10
HTTP_OK == 200

----------------------------------------------------------------------------
(* Input domains. *)

NoText == <<>>

Prompts == {<<"a">>, <<"b">>}

LenPrompts == {<<"a">>}

Keys == {NoText, <<"k">>}

\* A completion object: the list of choices, each with a message content.
\* content = <<"None">> stands for a choice whose content is None.
NoneContent == <<"None">>

Completions ==
    { [choices |-> <<>>],
      [choices |-> <<NoneContent>>],
      [choices |-> << <<" ", "e", " ">> >>] }

FifoCompletions == { [choices |-> <<>>] }

\* Bytes of an image file: container format, pixel content, and whether the
\* pixel data is complete (a truncated file still has a readable header).
GoodPng   == [format |-> "PNG",  pix |-> 1, intact |-> TRUE]
GoodJpeg  == [format |-> "JPEG", pix |-> 2, intact |-> TRUE]
Truncated == [format |-> "PNG",  pix |-> 1, intact |-> FALSE]
Junk      == [format |-> "none", pix |-> 0, intact |-> FALSE]

\* A base64 string: well formed or not, and the bytes it encodes.
B64(bytes)  == [valid |-> TRUE, bytes |-> bytes]
BadB64      == [valid |-> FALSE, bytes |-> Junk]

\* A response body: whether it parses as JSON, and its artifacts list.
JsonBody(arts) == [json |-> TRUE, artifacts |-> arts]
NotJson        == [json |-> FALSE, artifacts |-> <<>>]

Bodies ==
    { NotJson, JsonBody(<<>>), JsonBody(<<BadB64>>), JsonBody(<<B64(Junk)>>),
      JsonBody(<<B64(Truncated)>>), JsonBody(<<B64(GoodPng)>>),
      JsonBody(<<B64(GoodJpeg), B64(GoodPng)>>) }

FifoBodies == { JsonBody(<<BadB64>>), JsonBody(<<B64(GoodPng)>>) }

LenBodies ==
    { JsonBody(<<BadB64>>), JsonBody(<<B64(Truncated)>>),
      JsonBody(<<B64(GoodPng)>>) }

Statuses == {HTTP_OK, 500}

Responses     == [status : Statuses, body : Bodies]
FifoResponses == [status : Statuses, body : FifoBodies]
LenResponses  == [status : Statuses, body : LenBodies]

----------------------------------------------------------------------------
(* Pure helpers. *)

IsSpace(c) == c = " "

RECURSIVE LStrip(_)
LStrip(s) == IF s # <<>> /\ IsSpace(Head(s)) THEN LStrip(Tail(s)) ELSE s

RECURSIVE RStrip(_)
RStrip(s) ==
    IF s # <<>> /\ IsSpace(s[Len(s)])
    THEN RStrip(SubSeq(s, 1, Len(s) - 1)) ELSE s

\* str.strip()
Strip(s) == RStrip(LStrip(s))

\* Variant of KeysProvided that is satisfied by a single key.
KeysProvided_Either(gk, sk) == gk # NoText \/ sk # NoText

\* The guard of line 182: both keys are non-empty.
KeysProvided(gk, sk) == gk # NoText /\ sk # NoText

\* Variant of WantsEnhance that ignores the checkbox.
WantsEnhance_Always(e) == TRUE

\* The enhance branch of line 190.
WantsEnhance(e) == e

\* completion.choices[0].message.content.strip(); <<>> wrapped when it
\* raises (no choice, or content None), <<s>> when it yields s.
CompletionText(c) ==
    IF Len(c.choices) = 0 THEN <<>>
    ELSE IF c.choices[1] = NoneContent THEN <<>>
    ELSE << Strip(c.choices[1]) >>

\* The prompt used when the enhancement step raised (line 227).
FallbackPrompt(raw, enhanced) == raw

\* Variant of StatusOk that lets every status from 200 up through.
StatusOk_AnyStatus(r) == r.status >= HTTP_OK

\* The status test of line 259.
StatusOk(r) == r.status = HTTP_OK

\* Lines 265-267: response.json(), data["artifacts"][0]["base64"],
\* base64.b64decode and Image.open.  <<>> when any of them raises, else
\* <<image>> with the opened (lazily loaded) image.
DecodeImage(r) ==
    IF ~r.body.json THEN <<>>
    ELSE IF Len(r.body.artifacts) = 0 THEN <<>>
    ELSE IF ~r.body.artifacts[1].valid THEN <<>>
    ELSE IF r.body.artifacts[1].bytes.format = "none" THEN <<>>
    ELSE << r.body.artifacts[1].bytes >>

\* Lines 280-282: image.save(buffered, format="PNG"); <<>> when it raises
\* (the pixel data cannot be loaded), else <<img_data>>.
SavePng(image) ==
    IF ~image.intact THEN <<>>
    ELSE << [format |-> "PNG", pix |-> image.pix, intact |-> TRUE] >>

\* Variant of CurrentImage that keeps the bytes the service sent instead of
\* the re-encoded PNG.
CurrentImage_SourceBytes(image, img_data) == <<image, image>>

\* The pair stored at line 287: the opened image and its PNG bytes.
CurrentImage(image, img_data) == <<image, img_data>>

\* Variant of HistoryAppend without the eviction.
HistoryAppend_NoEvict(buf, item) == Append(buf, item)

\* Variant of HistoryAppend that evicts with pop() instead of pop(0).
HistoryAppend_PopNewest(buf, item) ==
    LET b == Append(buf, item)
    IN  IF Len(b) > HistoryCap THEN SubSeq(b, 1, Len(b) - 1) ELSE b

\* list.append(item) followed by "if len(list) > 10: list.pop(0)".
HistoryAppend(buf, item) ==
    LET b == Append(buf, item)
    IN  IF Len(b) > HistoryCap THEN Tail(b) ELSE b

Ev(name, arg) == [ev |-> name, arg |-> arg]

\* The events of the running invocation.
Has(name) == \E i \in DOMAIN trace : trace[i].ev = name

Count(name) == Cardinality({i \in DOMAIN trace : trace[i].ev = name})

Min(a, b) == IF a < b THEN a ELSE b

\* The last n elements of s, n <= Len(s).
LastN(s, n) == SubSeq(s, Len(s) - n + 1, Len(s))

----------------------------------------------------------------------------
(* Initial state: lines 23-28, no script run in progress. *)

Init ==
    /\ prompt_history = <<>>
    /\ generated_images = <<>>
    /\ current_image = <<>>
    /\ pc = "idle"
    /\ text_prompt = NoText
    /\ groq_api_key = NoText
    /\ stability_api_key = NoText
    /\ enhance_prompt = FALSE
    /\ enhanced_prompt = NoText
    /\ ret = "-"
    /\ trace = <<>>
    /\ ph0 = <<>>
    /\ gi0 = <<>>
    /\ ci0 = <<>>
    /\ appendedPrompts = <<>>
    /\ appendedImages = <<>>

session == <<prompt_history, generated_images, current_image>>
logs    == <<appendedPrompts, appendedImages>>

----------------------------------------------------------------------------
(* The button handler calls generate_image (lines 372-392); generate_image *)
(* runs up to its first outbound call (lines 181-214 or 181-256).          *)
Begin(p, gk, sk, e) ==
    /\ pc = "idle"
    /\ text_prompt' = p
    /\ groq_api_key' = gk
    /\ stability_api_key' = sk
    /\ enhance_prompt' = e
    /\ ph0' = prompt_history
    /\ gi0' = generated_images
    /\ ci0' = current_image
    /\ IF ~KeysProvided(gk, sk)
       THEN /\ pc' = "returned"
            /\ ret' = "None"
            /\ enhanced_prompt' = NoText
            /\ trace' = <<>>
       ELSE /\ ret' = "-"
            /\ enhanced_prompt' = p
            /\ IF WantsEnhance(e)
               THEN /\ pc' = "enhancing"
                    /\ trace' = << Ev("enhancer_call", p) >>
               ELSE /\ pc' = "posting"
                    /\ trace' = << Ev("post_call", p) >>
    /\ UNCHANGED <<session, logs>>

(* The Groq call returns a completion: its text is taken (line 216) and    *)
(* shown (lines 217-221); when the text cannot be taken, or showing it     *)
(* raises, lines 223-227 run.  Then the POST is issued (229-256).          *)
EnhancerReturns(c, shown) ==
    /\ pc = "enhancing"
    /\ LET t == CompletionText(c)
           failed == t = <<>> \/ ~shown
           final == IF t = <<>>
                    THEN FallbackPrompt(text_prompt, enhanced_prompt)
                    ELSE IF ~shown
                    THEN FallbackPrompt(text_prompt, t[1])
                    ELSE t[1]
       IN  /\ enhanced_prompt' = final
           /\ trace' = trace \o
                 << Ev(IF failed THEN "enhancer_fail" ELSE "enhancer_ok",
                       final),
                    Ev("post_call", final) >>
    /\ pc' = "posting"
    /\ UNCHANGED <<session, logs, text_prompt, groq_api_key,
                   stability_api_key, enhance_prompt, ret, ph0, gi0, ci0>>

(* Variant of EnhancerRaises without the inner try: the exception reaches  *)
(* the handler of lines 294-296.                                           *)
EnhancerRaises_Abort ==
    /\ pc = "enhancing"
    /\ pc' = "returned"
    /\ ret' = "None"
    /\ trace' = Append(trace, Ev("enhancer_fail", text_prompt))
    /\ UNCHANGED <<session, logs, text_prompt, groq_api_key,
                   stability_api_key, enhance_prompt, enhanced_prompt,
                   ph0, gi0, ci0>>

(* Variant of EnhancerRaises that tries the Groq call a second time.       *)
EnhancerRaises_Retry ==
    /\ pc = "enhancing"
    /\ IF Count("enhancer_call") < 2
       THEN /\ pc' = "enhancing"
            /\ trace' = trace \o
                  << Ev("enhancer_fail", text_prompt),
                     Ev("enhancer_call", text_prompt) >>
       ELSE /\ pc' = "posting"
            /\ trace' = trace \o
                  << Ev("enhancer_fail", text_prompt),
                     Ev("post_call", text_prompt) >>
    /\ UNCHANGED <<session, logs, text_prompt, groq_api_key,
                   stability_api_key, enhance_prompt, enhanced_prompt, ret,
                   ph0, gi0, ci0>>

(* The Groq call raises (network or auth error): lines 223-227, then the   *)
(* POST is issued (229-256).                                               *)
EnhancerRaises ==
    /\ pc = "enhancing"
    /\ LET final == FallbackPrompt(text_prompt, enhanced_prompt)
       IN  /\ enhanced_prompt' = final
           /\ trace' = trace \o
                 << Ev("enhancer_fail", final), Ev("post_call", final) >>
    /\ pc' = "posting"
    /\ UNCHANGED <<session, logs, text_prompt, groq_api_key,
                   stability_api_key, enhance_prompt, ret, ph0, gi0, ci0>>

(* requests.post returns a response: lines 257-292.                        *)
PostReturns(r) ==
    /\ pc = "posting"
    /\ pc' = "returned"
    /\ LET got  == Ev(IF r.status = 200 THEN "post_200" ELSE "post_non200",
                      NoText)
           img  == DecodeImage(r)
           pitem == <<text_prompt, enhanced_prompt>>
           png  == SavePng(img[1])
           gitem == <<png[1], text_prompt, enhanced_prompt>>
       IN  IF ~StatusOk(r)
           THEN \* lines 259-262
                /\ ret' = "None"
                /\ trace' = Append(trace, got)
                /\ UNCHANGED <<session, logs>>
           ELSE IF img = <<>>
           THEN \* lines 265-267 raise, caught at 290-292
                /\ ret' = "None"
                /\ trace' = Append(trace, got)
                /\ UNCHANGED <<session, logs>>
           ELSE \* lines 275-277
                /\ prompt_history' = HistoryAppend(prompt_history, pitem)
                /\ appendedPrompts' = Append(appendedPrompts, pitem)
                /\ IF png = <<>>
                   THEN \* line 281 raises, caught at 290-292
                        /\ ret' = "None"
                        /\ trace' = trace \o
                              << got, Ev("append_prompt", NoText) >>
                        /\ UNCHANGED <<generated_images, current_image,
                                       appendedImages>>
                   ELSE \* lines 283-288
                        /\ generated_images' =
                              HistoryAppend(generated_images, gitem)
                        /\ appendedImages' = Append(appendedImages, gitem)
                        /\ current_image' = CurrentImage(img[1], png[1])
                        /\ ret' = "image"
                        /\ trace' = trace \o
                              << got, Ev("append_prompt", NoText),
                                 Ev("append_image", NoText) >>
    /\ UNCHANGED <<text_prompt, groq_api_key, stability_api_key,
                   enhance_prompt, enhanced_prompt, ph0, gi0, ci0>>

(* Variant of PostRaises in which the exception is caught by no handler.   *)
PostRaises_Uncaught ==
    /\ pc = "posting"
    /\ pc' = "crashed"
    /\ trace' = Append(trace, Ev("post_raised", NoText))
    /\ UNCHANGED <<session, logs, text_prompt, groq_api_key,
                   stability_api_key, enhance_prompt, enhanced_prompt, ret,
                   ph0, gi0, ci0>>

(* requests.post raises (connection error): lines 290-292.                 *)
PostRaises ==
    /\ pc = "posting"
    /\ pc' = "returned"
    /\ ret' = "None"
    /\ trace' = Append(trace, Ev("post_raised", NoText))
    /\ UNCHANGED <<session, logs, text_prompt, groq_api_key,
                   stability_api_key, enhance_prompt, enhanced_prompt,
                   ph0, gi0, ci0>>

(* The handler renders the result (lines 395-414) and the script run ends. *)
HandlerEnd ==
    /\ pc = "returned"
    /\ pc' = "idle"
    /\ text_prompt' = NoText
    /\ groq_api_key' = NoText
    /\ stability_api_key' = NoText
    /\ enhance_prompt' = FALSE
    /\ enhanced_prompt' = NoText
    /\ ret' = "-"
    /\ trace' = <<>>
    /\ ph0' = <<>>
    /\ gi0' = <<>>
    /\ ci0' = <<>>
    /\ UNCHANGED <<session, logs>>

----------------------------------------------------------------------------
(* Specifications. *)

\* A session over the full input domain.
Click ==
    \E p \in Prompts, gk \in Keys, sk \in Keys, e \in BOOLEAN :
        Len(appendedPrompts) < MaxAppends /\ Begin(p, gk, sk, e)

Completion ==
    \E c \in Completions, shown \in BOOLEAN : EnhancerReturns(c, shown)

Response == \E r \in Responses : PostReturns(r)

Next ==
    \/ Click
    \/ Completion
    \/ EnhancerRaises
    \/ Response
    \/ PostRaises
    \/ HandlerEnd

Spec == Init /\ [][Next]_vars

\* Every outbound call eventually returns or raises, and the script run
\* goes on to its end; the user need not click again.
FairSpec ==
    /\ Spec
    /\ WF_vars(Completion \/ EnhancerRaises)
    /\ WF_vars(Response \/ PostRaises)
    /\ WF_vars(HandlerEnd)

\* A long session with two prompts in which the image is always savable:
\* the contents of the buffers across evictions.
FifoClick ==
    \E p \in Prompts, gk \in Keys, sk \in Keys, e \in BOOLEAN :
        Len(appendedPrompts) < MaxLongAppends /\ Begin(p, gk, sk, e)

FifoCompletion == \E c \in FifoCompletions : EnhancerReturns(c, TRUE)

FifoResponse == \E r \in FifoResponses : PostReturns(r)

NextFifo ==
    \/ FifoClick
    \/ FifoCompletion
    \/ EnhancerRaises
    \/ FifoResponse
    \/ PostRaises
    \/ HandlerEnd

SpecFifo == Init /\ [][NextFifo]_vars

\* A long session with one prompt and every failure of the image call:
\* the lengths of the buffers across evictions.
LenClick ==
    \E p \in LenPrompts, gk \in Keys, sk \in Keys, e \in BOOLEAN :
        Len(appendedPrompts) < MaxLongAppends /\ Begin(p, gk, sk, e)

LenResponse == \E r \in LenResponses : PostReturns(r)

NextLen ==
    \/ LenClick
    \/ FifoCompletion
    \/ EnhancerRaises
    \/ LenResponse
    \/ PostRaises
    \/ HandlerEnd

SpecLen == Init /\ [][NextLen]_vars

----------------------------------------------------------------------------
(* Properties. *)

Returned == pc = "returned"

Running == pc \in {"enhancing", "posting"}

PairOf(g) == <<g[2], g[3]>>

\* C1: when a step fails after the image call returned 200, the invocation
\* returns no image and both history buffers are as they were when it
\* began.
C1_FailureAfter200LeavesHistory ==
    (Returned /\ Has("post_200") /\ ret = "None")
        => (prompt_history = ph0 /\ generated_images = gi0)

\* C2: when the image service answers with a status other than 200, the
\* invocation returns None, appends to neither buffer and leaves
\* prompt_history, generated_images and current_image unchanged.
C2_Non200LeavesSession ==
    (Returned /\ Has("post_non200"))
        => /\ ret = "None"
           /\ ~Has("append_prompt")
           /\ ~Has("append_image")
           /\ prompt_history = ph0
           /\ generated_images = gi0
           /\ current_image = ci0

C2_Witness ==
    /\ Returned
    /\ Has("post_non200")
    /\ Has("enhancer_ok")
    /\ ph0 # <<>>
    /\ ci0 # <<>>

\* C3: in every reachable state the lengths of prompt_history and of
\* generated_images are between 0 and 10.
C3_LengthsBounded ==
    /\ Len(prompt_history) \in 0..10
    /\ Len(generated_images) \in 0..10

C3_Witness ==
    /\ Len(appendedImages) = 11
    /\ Len(prompt_history) = 10
    /\ Len(generated_images) = 10

\* C4: prompt_history and generated_images have the same length and at
\* every position hold the same (rawPrompt, finalPrompt) pair.
C4_PairwiseCorrespondence ==
    /\ Len(prompt_history) = Len(generated_images)
    /\ \A i \in DOMAIN prompt_history :
          i \in DOMAIN generated_images
              => prompt_history[i] = PairOf(generated_images[i])

\* C5: when the enhancer call fails the final prompt is the raw prompt, the
\* image generator is called with the raw prompt, a success records
\* (rawPrompt, rawPrompt), and a None result comes from the image stage.
C5_EnhancerFailureIsSoft ==
    Has("enhancer_fail")
        => /\ enhanced_prompt = text_prompt
           /\ \E i \in DOMAIN trace :
                 trace[i].ev = "post_call" /\ trace[i].arg = text_prompt
           /\ ret = "image"
                 => /\ prompt_history[Len(prompt_history)]
                          = <<text_prompt, text_prompt>>
                    /\ PairOf(generated_images[Len(generated_images)])
                          = <<text_prompt, text_prompt>>
           /\ ret = "None"
                 => Has("post_200") \/ Has("post_non200")
                       \/ Has("post_raised")

C5_Witness ==
    /\ Returned
    /\ Has("enhancer_fail")
    /\ ret = "image"

\* C6: each history buffer holds the last min(n,10) items appended to it,
\* in insertion order; after 11 appends the length is 10, the head is the
\* 2nd item and the tail is the 11th.
C6_FifoEviction ==
    /\ prompt_history =
          LastN(appendedPrompts, Min(Len(appendedPrompts), 10))
    /\ generated_images =
          LastN(appendedImages, Min(Len(appendedImages), 10))
    /\ Len(appendedPrompts) = Len(appendedImages)
    /\ Len(appendedImages) = 11
          => /\ Len(prompt_history) = 10
             /\ Len(generated_images) = 10
             /\ prompt_history[1] = appendedPrompts[2]
             /\ generated_images[1] = appendedImages[2]
             /\ prompt_history[10] = appendedPrompts[11]
             /\ generated_images[10] = appendedImages[11]

C6_Witness ==
    /\ Len(appendedImages) = 11
    /\ appendedImages[1] # appendedImages[2]
    /\ appendedImages[10] # appendedImages[11]

\* C7: when either API key is empty the invocation returns None, makes
\* neither outbound call and leaves both buffers and current_image
\* unchanged.
C7_MissingKeyIsHardFailure ==
    (pc # "idle" /\ (groq_api_key = NoText \/ stability_api_key = NoText))
        => /\ Returned
           /\ ret = "None"
           /\ trace = <<>>
           /\ prompt_history = ph0
           /\ generated_images = gi0
           /\ current_image = ci0

C7_Witness ==
    /\ Returned
    /\ groq_api_key # NoText
    /\ stability_api_key = NoText
    /\ enhance_prompt
    /\ ph0 # <<>>

\* C8: with enhance=false the enhancer is never called, the prompt sent to
\* the image generator and stored as the enhanced prompt is the raw prompt,
\* and a success from empty buffers leaves both with length 1.
C8_NoEnhanceUsesRawPrompt ==
    (pc # "idle" /\ ~enhance_prompt)
        => /\ ~Has("enhancer_call")
           /\ \A i \in DOMAIN trace :
                 trace[i].ev = "post_call" => trace[i].arg = text_prompt
           /\ ret = "image"
                 => /\ prompt_history[Len(prompt_history)]
                          = <<text_prompt, text_prompt>>
                    /\ PairOf(generated_images[Len(generated_images)])
                          = <<text_prompt, text_prompt>>
                    /\ (ph0 = <<>> /\ gi0 = <<>>)
                          => /\ Len(prompt_history) = 1
                             /\ Len(generated_images) = 1

C8_Witness ==
    /\ Returned
    /\ ~enhance_prompt
    /\ ret = "image"
    /\ ph0 = <<>>
    /\ gi0 = <<>>

\* C9: within one invocation the enhancer and the image generator are each
\* called at most once, the image call follows the enhancer's return, and
\* an append follows a 200 return of the image call.
C9_CallsOrderedNoRetry ==
    /\ Count("enhancer_call") <= 1
    /\ Count("post_call") <= 1
    /\ \A i, j \in DOMAIN trace :
          (trace[i].ev = "post_call" /\ trace[j].ev = "enhancer_call")
              => \E k \in DOMAIN trace :
                    /\ j < k
                    /\ k < i
                    /\ trace[k].ev \in {"enhancer_ok", "enhancer_fail"}
    /\ \A i \in DOMAIN trace :
          trace[i].ev \in {"append_prompt", "append_image"}
              => \E j, k \in DOMAIN trace :
                    /\ j < k
                    /\ k < i
                    /\ trace[j].ev = "post_call"
                    /\ trace[k].ev = "post_200"

C9_Witness ==
    /\ Returned
    /\ Has("enhancer_fail")
    /\ Has("append_image")

\* C10: every started invocation eventually returns, with an image or with
\* None; while it runs or has returned, the next step belongs to the same
\* invocation, so no other invocation begins before it has ended.
C10_RunsToCompletion ==
    /\ Running ~> Returned
    /\ [](Returned => ret \in {"image", "None"})
    /\ [](Returned => (ret = "image" <=> Has("append_image")))
    /\ [][Running => /\ pc' \in {"posting", "returned"}
                     /\ pc' # pc
                     /\ text_prompt' = text_prompt
                     /\ ph0' = ph0]_vars
    /\ [][Returned => pc' = "idle"]_vars

C10_Witness ==
    /\ Returned
    /\ Has("post_raised")
    /\ ret = "None"

\* C11: current_image changes only in a step that returns an image;
\* current_image is None exactly when generated_images is empty, and
\* otherwise its PNG bytes are the image bytes of the last entry of
\* generated_images.
C11_CurrentImageIsNewest ==
    /\ [](current_image = <<>> <=> generated_images = <<>>)
    /\ [](generated_images # <<>>
            => current_image[2]
                  = generated_images[Len(generated_images)][1])
    /\ [][current_image' # current_image
            => (pc = "posting" /\ ret' = "image")]_vars

C11_Witness ==
    /\ Returned
    /\ ret = "image"
    /\ ci0 # <<>>
    /\ current_image # ci0
    /\ current_image[1] # current_image[2]
    /\ Len(prompt_history) > Len(generated_images)

====
